---- MODULE Spec2Model ----
(***************************************************************************)
(* A model of the repository-ingestion core:                               *)
(*   - GithubClientBase.get_repository_structure (cache lookup, default    *)
(*     branch, filtered recursive traversal, batched concurrent fetch,     *)
(*     write-through), with the three backends' _get_default_branch;       *)
(*   - SectionAnalyzer.analyze_repository (cache replay, method dispatch,  *)
(*     min-size merge, persistence).                                       *)
(* Python strings are TLA+ strings; where the code looks inside a string   *)
(* (endswith, substring) the string's characters come from CharSeqs.       *)
(***************************************************************************)
EXTENDS Integers, Sequences, FiniteSets, TLC

None == "None"

\* ------------------------------------------------------------------------
\* Strings
\* ------------------------------------------------------------------------

CharSeqs ==
  { <<>>,
    <<"R", "E", "A", "D", "M", "E", ".", "m", "d">>,
    <<"s", "r", "c">>,
    <<"b", "u", "i", "l", "d">>,
    <<"l", "n", "k">>,
    <<"s", "r", "c", "/", "a", ".", "p", "y">>,
    <<"s", "r", "c", "/", "b", ".", "p", "y">>,
    <<"s", "r", "c", "/", "c", ".", "p", "y">>,
    <<"s", "r", "c", "/", "u", "/", "d", ".", "p", "y">>,
    <<"s", "r", "c", "/", "u", "/", "e", ".", "p", "y">>,
    <<"s", "r", "c", "/", "n", "o", "t", "e", "s", ".", "t", "x", "t">>,
    <<"b", "u", "i", "l", "d", "/", "x", ".", "p", "y">>,
    <<"R", "E", "A", "D", "M", "E", ".", "p", "n", "g">>,
    <<"b", "i", "g", ".", "p", "y">>,
    <<"s", "r", "c", "/", "u", "/", "_", "_", "i", "n", "i", "t", "_", "_",
      ".", "p", "y">>,
    <<"a", ".", "p", "y">>,
    <<"_", "_", "i", "n", "i", "t", "_", "_", ".", "p", "y">>,
    <<".", "p", "y">>,
    <<"R", "E", "A", "D", "M", "E">>,
    <<".", "g", "i", "t">>,
    <<"n", "o", "d", "e", "_", "m", "o", "d", "u", "l", "e", "s">>,
    <<"_", "_", "p", "y", "c", "a", "c", "h", "e", "_", "_">>,
    <<"d", "i", "s", "t">>,
    <<".", "p", "n", "g">>,
    <<".", "j", "p", "g">>,
    <<".", "j", "p", "e", "g">>,
    <<".", "g", "i", "f">>,
    <<".", "b", "m", "p">>,
    <<".", "p", "d", "f">>,
    <<".", "z", "i", "p">>,
    <<".", "g", "z">>,
    <<".", "t", "a", "r">>,
    <<".", "c", "l", "a", "s", "s">>,
    <<".", "e", "x", "e">>,
    <<".", "d", "l", "l">>,
    <<".", "s", "o">> }

RECURSIVE Str(_)
Str(cs) == IF cs = <<>> THEN "" ELSE Head(cs) \o Str(Tail(cs))

CharTable == [s \in {Str(cs) : cs \in CharSeqs} |->
                CHOOSE cs \in CharSeqs : Str(cs) = s]

Chars(s) == CharTable[s]

\* path.endswith(ext)
EndsWith(path, ext) ==
  LET p == Chars(path)
      e == Chars(ext)
  IN  /\ Len(e) <= Len(p)
      /\ SubSeq(p, Len(p) - Len(e) + 1, Len(p)) = e

\* sub in path
Contains(sub, path) ==
  LET p == Chars(path)
      s == Chars(sub)
  IN  \E k \in 0..(Len(p) - Len(s)) : SubSeq(p, k + 1, k + Len(s)) = s

\* ------------------------------------------------------------------------
\* Maps (Python dicts) and the persistent cache
\* ------------------------------------------------------------------------

EmptyMap == <<>>

\* d[k] = v
Put(d, k, v) == (k :> v) @@ d

\* bool(d) of a dict
Truthy(d) == DOMAIN d # {}

Range(f) == { f[x] : x \in DOMAIN f }

Owner == "o"
Repo == "r"

CacheKey(owner, repo, br) == <<owner, repo, br>>

NoEntry == [present |-> FALSE, files |-> EmptyMap]

\* RepoCache.get_repo_files: the stored map, or a miss
get_repo_files(cache, owner, repo, br) ==
  IF CacheKey(owner, repo, br) \in DOMAIN cache
  THEN cache[CacheKey(owner, repo, br)]
  ELSE NoEntry

\* RepoCache.cache_repo_files
cache_repo_files(cache, owner, repo, files, br) ==
  Put(cache, CacheKey(owner, repo, br), [present |-> TRUE, files |-> files])

\* ------------------------------------------------------------------------
\* The remote
\* ------------------------------------------------------------------------

Entry(p, t, s) == [path |-> p, type |-> t, size |-> s]

\* An ordinary tree: a binary file, an oversized file, an ignored directory.
RemotePlain ==
  [ default_branch |-> "dev",
    rev  |-> "1",
    tree |-> ( "" :> << Entry("README.md", "file", 6),
                        Entry("src", "dir", 0),
                        Entry("build", "dir", 0),
                        Entry("README.png", "file", 6),
                        Entry("big.py", "file", 2000) >> )
          @@ ( "src" :> << Entry("src/a.py", "file", 5),
                           Entry("src/notes.txt", "file", 8) >> )
          @@ ( "build" :> << Entry("build/x.py", "file", 5) >> ) ]

\* A remote that repeats a file entry and a directory entry, lists a
\* directory inside itself and holds a symlink named README (whose listing
\* is the single, large file it points to).
RemoteOdd ==
  [ default_branch |-> "main",
    rev  |-> "2",
    tree |-> ( "" :> << Entry("README.md", "file", 6),
                        Entry("README.md", "file", 6),
                        Entry("src", "dir", 0),
                        Entry("README", "symlink", 0),
                        Entry("src", "dir", 0) >> )
          @@ ( "src" :> << Entry("src/a.py", "file", 5),
                           Entry("src", "dir", 0) >> )
          @@ ( "README" :> << Entry("README", "file", 2000) >> ) ]

Remotes == {RemotePlain, RemoteOdd}

\* The body the remote serves for a path
ContentOf(rem, path) == path \o "@" \o rem.rev

Backends == {"base", "direct", "mcp"}

\* ------------------------------------------------------------------------
\* Bounds
\* ------------------------------------------------------------------------

MaxBatchSize == 2
MaxWorkers == 2


\* ------------------------------------------------------------------------
\* get_repository_structure: arguments
\* ------------------------------------------------------------------------

DefaultIgnoreDirs == {".git", "node_modules", "__pycache__", "dist", "build"}

binary_extensions ==
  {".png", ".jpg", ".jpeg", ".gif", ".bmp", ".pdf", ".zip",
   ".gz", ".tar", ".class", ".exe", ".dll", ".so"}

\* Filter configurations a caller passes (ignore_dirs = None is has_ignore
\* FALSE; an absent list is the empty set): a small size limit without an
\* extension filter, and an extension filter with an include pattern.
Configs ==
  { [has_ignore |-> FALSE, ignore_dirs |-> {}, max_file_size |-> 7,
     include_patterns |-> {}, extensions |-> {}],
    [has_ignore |-> FALSE, ignore_dirs |-> {}, max_file_size |-> 1000,
     include_patterns |-> {"README"}, extensions |-> {".py"}] }

ArgSets ==
  [ branch        : {None, "main"},
    force_refresh : BOOLEAN,
    batch_size    : 1..MaxBatchSize,
    max_workers   : 1..MaxWorkers,
    cfg           : Configs ]

VARIABLES
  backend,        \* which client class the object is
  use_cache,      \* self.use_cache
  fileCache,      \* RepoCache's file-map records, by (owner, repo, branch)
  pc,             \* position of the running get_repository_structure call
  args,           \* its arguments
  remote,         \* the repository the remote serves during this call
  branch,         \* the local variable branch
  visited_dirs,   \* visited_dirs
  all_file_paths, \* all_file_paths
  stack,          \* the active collect_file_paths calls, innermost last
  i,              \* first index (1-based) of the current batch
  inBatch,        \* inside the with-block of a batch
  queued,         \* submitted tasks no worker has taken yet (FIFO)
  running,        \* tasks whose get_file_content call is in flight
  finished,       \* futures done, not yet yielded by as_completed
  consumed,       \* futures of this batch the loop body has handled
  completed,      \* every task whose fetch has ended, over the whole call
  outcome,        \* what the remote answers for a path: "ok" or "fail"
  result,         \* result
  returned,       \* the value the call returned
  listCalls,      \* listing calls issued in this call, per directory
  listFailed,     \* directories whose listing call raised in this call
  fetchCalls,     \* content fetches issued in this call, per task
  branchCalls     \* default-branch lookups sent to the remote in this call

cvars == << backend, use_cache, fileCache, pc, args, remote, branch,
            visited_dirs, all_file_paths, stack, i, inBatch, queued, running,
            finished, consumed, completed, outcome, result, returned,
            listCalls, listFailed, fetchCalls, branchCalls >>

VARIABLES
  github_client,   \* the client the analyzer was constructed with
  sa_use_cache,    \* SectionAnalyzer.use_cache
  has_code_search, \* SectionAnalyzer.has_code_search
  structCache,     \* RepoCache's structure records, by (owner, repo, branch)
  metaCache,       \* RepoCache's metadata records, by (owner, repo, branch)
  apc,             \* position of the running analyze_repository call
  aargs,           \* its arguments
  sections,        \* the local variable sections
  structure_data,  \* the local variable structure_data
  aret,            \* the SectionSet the call returned
  replayed,        \* the call returned at line 87
  strategyCalls,   \* partition strategies invoked in this call
  mergeCalls,      \* _merge_small_sections invocations in this call
  searchCalls      \* reference searches sent to the client in this call

avars == << github_client, sa_use_cache, has_code_search, structCache,
            metaCache, apc, aargs, sections, structure_data, aret, replayed,
            strategyCalls, mergeCalls, searchCalls >>

VARIABLES
  spc,         \* position of the running search_references call
  filepath,    \* its argument filepath
  queries,     \* the queries of the for loop not yet run
  query,       \* the query search_code is running
  hits,        \* what the remote holds for that query, in order
  page_size,   \* how many items the remote puts on one page
  total,       \* the total_count the remote reports for that query
  results,     \* search_code: results
  page,        \* search_code: page
  references,  \* search_references: references
  answers,     \* what search_code returned, per query run so far
  sret,        \* the set search_references returned
  lastTool,    \* the last call_mcp_tool call and how it ended
  toolCalls,   \* call_mcp_tool calls of the running search_code call
  toolRuns     \* subprocess.run invocations of the running search_code call

mvars == << spc, filepath, queries, query, hits, page_size, total, results,
            page, references, answers, sret, lastTool, toolCalls, toolRuns >>

vars == << cvars, avars, mvars >>

ignore_dirs == IF args.cfg.has_ignore THEN args.cfg.ignore_dirs
               ELSE DefaultIgnoreDirs

\* Mutant of should_include_file: the include patterns are not consulted.
should_include_file_NoOverride(path, extensions, include_patterns) ==
  IF extensions # {} /\ ~(\E ext \in extensions : EndsWith(path, ext))
  THEN FALSE
  ELSE ~(\E ext \in binary_extensions : EndsWith(path, ext))

\* should_include_file(path)
should_include_file(path, extensions, include_patterns) ==
  IF extensions # {} /\ ~(\E ext \in extensions : EndsWith(path, ext))
  THEN include_patterns # {}
       /\ \E pattern \in include_patterns : Contains(pattern, path)
  ELSE ~(\E ext \in binary_extensions : EndsWith(path, ext))

\* _list_repository_files of a backend on the remote's raw listing: the
\* direct and the bridged backend report every non-file as a directory.
list_repository_files(be, raw) ==
  IF be \in {"direct", "mcp"}
  THEN [k \in 1..Len(raw) |->
          Entry(raw[k].path,
                IF raw[k].type = "file" THEN "file" ELSE "dir",
                raw[k].size)]
  ELSE raw

\* _get_default_branch of a backend, given how the remote lookup ended
\* ("ok", "empty": the search found no repository, "fail"): the branch name,
\* or the exception that leaves the method.
get_default_branch(be, lookup, rem) ==
  CASE be = "base"   -> [raised |-> FALSE, value |-> "main"]
    [] be = "direct" -> IF lookup = "ok"
                        THEN [raised |-> FALSE, value |-> rem.default_branch]
                        ELSE [raised |-> TRUE, value |-> None]
    [] be = "mcp"    -> IF lookup = "ok"
                        THEN [raised |-> FALSE, value |-> rem.default_branch]
                        ELSE [raised |-> FALSE, value |-> "main"]

\* Does the backend's _get_default_branch call the remote at all
BranchLookupIsRemote(be) == be \in {"direct", "mcp"}

\* Mutant of CacheHit: the refresh flag is read inverted.
CacheHit_Inverted(uc, force, cached) ==
  uc /\ force /\ cached.present /\ Truthy(cached.files)

\* lines 120-122: is the stored map returned
CacheHit(uc, force, cached) ==
  uc /\ ~force /\ cached.present /\ Truthy(cached.files)

\* Mutant of CanStartWorker: one thread per submitted task.
CanStartWorker_Unbounded(nRunning, max_workers) == TRUE

\* ThreadPoolExecutor(max_workers): may one more task start
CanStartWorker(nRunning, max_workers) == nRunning < max_workers

\* Indices of the batch all_file_paths[i:i+batch_size] (1-based)
BatchIdx(paths, first, batch_size) ==
  { k \in 1..Len(paths) : first <= k /\ k < first + batch_size }

\* Leaving the as_completed loop and the with-block: every future of the
\* batch has been yielded and handled.
BatchComplete(batch, q, run, fin, cons) ==
  q = <<>> /\ run = {} /\ fin = {} /\ cons = batch

\* Mutant of HandleFuture: a failed fetch leaves an entry without content.
HandleFuture_KeepsFailed(res, path, oc, content) ==
  Put(res, path, IF oc = "ok" THEN content ELSE None)

\* lines 226-231: the loop body for one completed future
HandleFuture(res, path, oc, content) ==
  IF oc = "ok" THEN Put(res, path, content) ELSE res

\* Mutant of StoreResult: the emptiness test is dropped.
StoreResult_AlsoEmpty(cache, uc, res, br) ==
  IF uc THEN cache_repo_files(cache, Owner, Repo, res, br) ELSE cache

\* lines 233-235: the write-through
StoreResult(cache, uc, res, br) ==
  IF uc /\ Truthy(res)
  THEN cache_repo_files(cache, Owner, Repo, res, br)
  ELSE cache

\* Mutant of AlreadyVisited: the visited set is never consulted.
AlreadyVisited_Never(path, visited) == FALSE

\* lines 161-162: collect_file_paths returns at once for a visited path
AlreadyVisited(path, visited) == path \in visited

\* Mutant of OnListingError: a failed listing unwinds the whole traversal.
OnListingError_UnwindsAll(s) == <<>>

\* lines 195-196: the exception of the listing is caught in the very
\* collect_file_paths call that issued it, which then returns to its caller
OnListingError(s) == SubSeq(s, 1, Len(s) - 1)

\* Mutant of IsIgnored: no token is ever matched.
IsIgnored_Never(item_path, tokens) == FALSE

\* line 175: the item's path contains an ignored-directory token
IsIgnored(item_path, tokens) == \E d \in tokens : Contains(d, item_path)

\* Mutant of WithinSize: the size of the item is not looked at.
WithinSize_Unchecked(item_size, max_file_size) == TRUE

\* line 185: the item is not skipped as a large file
WithinSize(item_size, max_file_size) == ~(item_size > max_file_size)

\* Mutant of future_to_path: the key is taken by completion order.
future_to_path_ByCompletionOrder(paths, k) == paths[i + Cardinality(consumed)]

\* lines 218-225: the path a future was submitted for
future_to_path(paths, k) == paths[k]

\* Mutant of Resubmitted: a failed fetch is submitted again.
Resubmitted_RetriesFailed(q, k, oc) == IF oc = "ok" THEN q ELSE Append(q, k)

\* lines 230-231: the except branch only logs; the executor's queue is what
\* it was, whether the fetch succeeded or failed
Resubmitted(q, k, oc) == q

Frame(p) == [path |-> p, listed |-> FALSE, items |-> <<>>, idx |-> 1]

Pop(s) == SubSeq(s, 1, Len(s) - 1)

Top(s) == s[Len(s)]


\* ------------------------------------------------------------------------
\* get_repository_structure: the steps of one call
\* ------------------------------------------------------------------------

InitClientLocals ==
  /\ fileCache = EmptyMap
  /\ pc = "idle"
  /\ args = [branch |-> None, force_refresh |-> FALSE, batch_size |-> 1,
             max_workers |-> 1,
             cfg |-> CHOOSE c \in Configs : c.extensions = {}]
  /\ remote = RemotePlain
  /\ branch = None
  /\ visited_dirs = {}
  /\ all_file_paths = <<>>
  /\ stack = <<>>
  /\ i = 1
  /\ inBatch = FALSE
  /\ queued = <<>>
  /\ running = {}
  /\ finished = {}
  /\ consumed = {}
  /\ completed = {}
  /\ outcome = EmptyMap
  /\ result = EmptyMap
  /\ returned = EmptyMap
  /\ listCalls = EmptyMap
  /\ listFailed = {}
  /\ fetchCalls = EmptyMap
  /\ branchCalls = 0

InitClient ==
  /\ backend \in Backends
  /\ use_cache \in BOOLEAN
  /\ InitClientLocals

\* A caller invokes get_repository_structure(owner, repo, branch, ...).
Call(a, rem) ==
  /\ pc \in {"idle", "done", "raised"}
  /\ pc' = "entry"
  /\ args' = a
  /\ remote' = rem
  /\ branch' = a.branch
  /\ visited_dirs' = {}
  /\ all_file_paths' = <<>>
  /\ stack' = <<>>
  /\ i' = 1
  /\ inBatch' = FALSE
  /\ queued' = <<>>
  /\ running' = {}
  /\ finished' = {}
  /\ consumed' = {}
  /\ completed' = {}
  /\ outcome' = EmptyMap
  /\ result' = EmptyMap
  /\ returned' = EmptyMap
  /\ listCalls' = EmptyMap
  /\ listFailed' = {}
  /\ fetchCalls' = EmptyMap
  /\ branchCalls' = 0
  /\ UNCHANGED avars
  /\ UNCHANGED mvars
  /\ UNCHANGED <<backend, use_cache, fileCache>>

\* lines 119-124: the cache lookup under the branch as passed
CheckCache ==
  /\ pc = "entry"
  /\ LET cached == IF use_cache /\ ~args.force_refresh
                   THEN get_repo_files(fileCache, Owner, Repo, branch)
                   ELSE NoEntry
     IN  IF CacheHit(use_cache, args.force_refresh, cached)
         THEN /\ returned' = cached.files
              /\ pc' = "done"
         ELSE /\ pc' = "resolve"
              /\ UNCHANGED returned
  /\ UNCHANGED avars
  /\ UNCHANGED mvars
  /\ UNCHANGED <<backend, use_cache, fileCache, args, remote, branch,
                 visited_dirs, all_file_paths, stack, i, inBatch, queued,
                 running, finished, consumed, completed, outcome, result,
                 listCalls, listFailed, fetchCalls, branchCalls>>

\* lines 126-129: the branch to use; then collect_file_paths() is entered
ResolveBranch ==
  /\ pc = "resolve"
  /\ IF branch = None
     THEN \E lookup \in {"ok", "empty", "fail"} :
            LET r == get_default_branch(backend, lookup, remote)
            IN  /\ branchCalls' = IF BranchLookupIsRemote(backend)
                                  THEN branchCalls + 1 ELSE branchCalls
                /\ IF r.raised
                   THEN /\ pc' = "raised"
                        /\ UNCHANGED <<branch, stack>>
                   ELSE /\ branch' = r.value
                        /\ pc' = "collect"
                        /\ stack' = <<Frame("")>>
     ELSE /\ pc' = "collect"
          /\ stack' = <<Frame("")>>
          /\ UNCHANGED <<branch, branchCalls>>
  /\ UNCHANGED avars
  /\ UNCHANGED mvars
  /\ UNCHANGED <<backend, use_cache, fileCache, args, remote, visited_dirs,
                 all_file_paths, i, inBatch, queued, running, finished,
                 consumed, completed, outcome, result, returned, listCalls,
                 listFailed, fetchCalls>>

\* lines 160-167, 195-196: collect_file_paths(path) up to the listing call.
\* The listing raises when the remote fails or has no such directory; the
\* exception is caught in this very call, which then returns.
EnterDir ==
  /\ pc = "collect"
  /\ stack # <<>>
  /\ ~Top(stack).listed
  /\ LET path == Top(stack).path
     IN  IF AlreadyVisited(path, visited_dirs)
         THEN /\ stack' = Pop(stack)
              /\ UNCHANGED <<visited_dirs, listCalls, listFailed>>
         ELSE /\ visited_dirs' = visited_dirs \cup {path}
              /\ listCalls' = Put(listCalls, path,
                                  IF path \in DOMAIN listCalls
                                  THEN listCalls[path] + 1 ELSE 1)
              /\ \/ /\ path \in DOMAIN remote.tree
                    /\ stack' = [stack EXCEPT ![Len(stack)] =
                                   [path |-> path, listed |-> TRUE,
                                    items |-> list_repository_files(
                                                backend, remote.tree[path]),
                                    idx |-> 1]]
                    /\ UNCHANGED listFailed
                 \/ /\ stack' = OnListingError(stack)
                    /\ listFailed' = listFailed \cup {path}
  /\ UNCHANGED avars
  /\ UNCHANGED mvars
  /\ UNCHANGED <<backend, use_cache, fileCache, pc, args, remote, branch,
                 all_file_paths, i, inBatch, queued, running, finished,
                 consumed, completed, outcome, result, returned, fetchCalls,
                 branchCalls>>

\* lines 169-194: one iteration of the loop over items (or its end)
NextItem ==
  /\ pc = "collect"
  /\ stack # <<>>
  /\ Top(stack).listed
  /\ LET top == Top(stack)
         n == Len(stack)
     IN  IF top.idx > Len(top.items)
         THEN /\ stack' = Pop(stack)
              /\ UNCHANGED all_file_paths
         ELSE LET item == top.items[top.idx]
                  adv == [stack EXCEPT ![n].idx = top.idx + 1]
              IN  IF IsIgnored(item.path, ignore_dirs)
                  THEN /\ stack' = adv
                       /\ UNCHANGED all_file_paths
                  ELSE IF item.type = "dir"
                  THEN /\ stack' = Append(adv, Frame(item.path))
                       /\ UNCHANGED all_file_paths
                  ELSE IF /\ item.type = "file"
                          /\ WithinSize(item.size, args.cfg.max_file_size)
                          /\ should_include_file(item.path,
                                                 args.cfg.extensions,
                                                 args.cfg.include_patterns)
                  THEN /\ stack' = adv
                       /\ all_file_paths' = Append(all_file_paths, item.path)
                  ELSE /\ stack' = adv
                       /\ UNCHANGED all_file_paths
  /\ UNCHANGED avars
  /\ UNCHANGED mvars
  /\ UNCHANGED <<backend, use_cache, fileCache, pc, args, remote, branch,
                 visited_dirs, i, inBatch, queued, running, finished,
                 consumed, completed, outcome, result, returned, listCalls,
                 listFailed, fetchCalls, branchCalls>>

\* lines 199-208: collection is over
FinishCollect ==
  /\ pc = "collect"
  /\ stack = <<>>
  /\ IF all_file_paths = <<>>
     THEN /\ returned' = EmptyMap
          /\ pc' = "done"
     ELSE /\ pc' = "fetch"
          /\ UNCHANGED returned
  /\ UNCHANGED avars
  /\ UNCHANGED mvars
  /\ UNCHANGED <<backend, use_cache, fileCache, args, remote, branch,
                 visited_dirs, all_file_paths, stack, i, inBatch, queued,
                 running, finished, consumed, completed, outcome, result,
                 listCalls, listFailed, fetchCalls, branchCalls>>

\* lines 211-221: the next batch is submitted to a fresh executor
SubmitBatch ==
  /\ pc = "fetch"
  /\ ~inBatch
  /\ i <= Len(all_file_paths)
  /\ inBatch' = TRUE
  /\ queued' = [k \in 1..Cardinality(BatchIdx(all_file_paths, i,
                                              args.batch_size)) |-> i + k - 1]
  /\ consumed' = {}
  /\ UNCHANGED avars
  /\ UNCHANGED mvars
  /\ UNCHANGED <<backend, use_cache, fileCache, pc, args, remote, branch,
                 visited_dirs, all_file_paths, stack, i, running, finished,
                 completed, outcome, result, returned, listCalls,
                 listFailed, fetchCalls, branchCalls>>

\* A worker thread takes the oldest queued task and calls get_file_content.
WorkerStart ==
  /\ pc = "fetch"
  /\ inBatch
  /\ queued # <<>>
  /\ CanStartWorker(Cardinality(running), args.max_workers)
  /\ running' = running \cup {Head(queued)}
  /\ queued' = Tail(queued)
  /\ fetchCalls' = Put(fetchCalls, Head(queued),
                       IF Head(queued) \in DOMAIN fetchCalls
                       THEN fetchCalls[Head(queued)] + 1 ELSE 1)
  /\ UNCHANGED avars
  /\ UNCHANGED mvars
  /\ UNCHANGED <<backend, use_cache, fileCache, pc, args, remote, branch,
                 visited_dirs, all_file_paths, stack, i, inBatch, finished,
                 consumed, completed, outcome, result, returned, listCalls,
                 listFailed, branchCalls>>

\* get_file_content of a running task returns or raises; the remote's
\* answer for one path is the same throughout a call.
WorkerFinish(k) ==
  /\ pc = "fetch"
  /\ k \in running
  /\ running' = running \ {k}
  /\ finished' = finished \cup {k}
  /\ completed' = completed \cup {k}
  /\ LET path == all_file_paths[k]
     IN  IF path \in DOMAIN outcome
         THEN UNCHANGED outcome
         ELSE \E oc \in {"ok", "fail"} : outcome' = Put(outcome, path, oc)
  /\ UNCHANGED avars
  /\ UNCHANGED mvars
  /\ UNCHANGED <<backend, use_cache, fileCache, pc, args, remote, branch,
                 visited_dirs, all_file_paths, stack, i, inBatch, queued,
                 consumed, result, returned, listCalls, listFailed, fetchCalls,
                 branchCalls>>

\* lines 224-231: as_completed yields a finished future
Consume(k) ==
  /\ pc = "fetch"
  /\ k \in finished
  /\ finished' = finished \ {k}
  /\ consumed' = consumed \cup {k}
  /\ result' = HandleFuture(result, future_to_path(all_file_paths, k),
                            outcome[all_file_paths[k]],
                            ContentOf(remote, all_file_paths[k]))
  /\ queued' = Resubmitted(queued, k, outcome[all_file_paths[k]])
  /\ UNCHANGED avars
  /\ UNCHANGED mvars
  /\ UNCHANGED <<backend, use_cache, fileCache, pc, args, remote, branch,
                 visited_dirs, all_file_paths, stack, i, inBatch, running,
                 completed, outcome, returned, listCalls, listFailed,
                 fetchCalls, branchCalls>>

\* The with-block of the batch is left; the for loop advances.
EndBatch ==
  /\ pc = "fetch"
  /\ inBatch
  /\ BatchComplete(BatchIdx(all_file_paths, i, args.batch_size),
                   queued, running, finished, consumed)
  /\ inBatch' = FALSE
  /\ i' = i + args.batch_size
  /\ UNCHANGED avars
  /\ UNCHANGED mvars
  /\ UNCHANGED <<backend, use_cache, fileCache, pc, args, remote, branch,
                 visited_dirs, all_file_paths, stack, queued, running,
                 finished, consumed, completed, outcome, result, returned,
                 listCalls, listFailed, fetchCalls, branchCalls>>

\* lines 233-237: write-through and return
StoreAndReturn ==
  /\ pc = "fetch"
  /\ ~inBatch
  /\ i > Len(all_file_paths)
  /\ fileCache' = StoreResult(fileCache, use_cache, result, branch)
  /\ returned' = result
  /\ pc' = "done"
  /\ UNCHANGED avars
  /\ UNCHANGED mvars
  /\ UNCHANGED <<backend, use_cache, args, remote, branch, visited_dirs,
                 all_file_paths, stack, i, inBatch, queued, running,
                 finished, consumed, completed, outcome, result, listCalls,
                 listFailed, fetchCalls, branchCalls>>

NextClient ==
  \/ \E a \in ArgSets, rem \in Remotes : Call(a, rem)
  \/ CheckCache
  \/ ResolveBranch
  \/ EnterDir
  \/ NextItem
  \/ FinishCollect
  \/ SubmitBatch
  \/ WorkerStart
  \/ \E k \in running : WorkerFinish(k)
  \/ \E k \in finished : Consume(k)
  \/ EndBatch
  \/ StoreAndReturn



\* ------------------------------------------------------------------------
\* SectionAnalyzer: sections and the partition strategies
\* ------------------------------------------------------------------------

\* A section is (section_name, {file_path: content}); a SectionSet is a
\* sequence of sections.
Section(n, f) == [name |-> n, files |-> f]

\* Paths an analysed file map may hold, in the order its keys are iterated.
PathSeq == << "README.md", "src/a.py", "src/b.py", "src/c.py",
              "src/u/d.py", "src/u/e.py" >>

PathIndex(p) == CHOOSE k \in 1..Len(PathSeq) : PathSeq[k] = p

\* The paths of S in iteration order
Ordered(S) ==
  LET Keep(p) == p \in S IN SelectSeq(PathSeq, Keep)

Restrict(f, S) == [p \in S |-> f[p]]

RECURSIVE SplitChars(_, _, _)
SplitChars(cs, cur, acc) ==
  IF cs = <<>> THEN Append(acc, Str(cur))
  ELSE IF Head(cs) = "/" THEN SplitChars(Tail(cs), <<>>, Append(acc, Str(cur)))
  ELSE SplitChars(Tail(cs), Append(cur, Head(cs)), acc)

\* path.split("/")
Segments(path) == SplitChars(Chars(path), <<>>, <<>>)

RECURSIVE JoinSegs(_)
JoinSegs(segs) ==
  IF segs = <<>> THEN ""
  ELSE IF Len(segs) = 1 THEN segs[1]
  ELSE segs[1] \o "/" \o JoinSegs(Tail(segs))

\* Number of directories above the file
DirDepth(path) == Len(Segments(path)) - 1

\* The directory prefix of a path, cut at depth d; files at the top level
\* form the group "root".
GroupKey(path, d) ==
  LET n == IF DirDepth(path) < d THEN DirDepth(path) ELSE d
  IN  IF n = 0 THEN "root" ELSE JoinSegs(SubSeq(Segments(path), 1, n))

RECURSIVE FlattenSeqs(_)
FlattenSeqs(ss) ==
  IF ss = <<>> THEN <<>> ELSE Head(ss) \o FlattenSeqs(Tail(ss))

\* The distinct group keys at depth d of the paths ps, by first appearance
RECURSIVE KeysInOrder(_, _, _)
KeysInOrder(ps, d, seen) ==
  IF ps = <<>> THEN <<>>
  ELSE IF GroupKey(Head(ps), d) \in seen THEN KeysInOrder(Tail(ps), d, seen)
  ELSE <<GroupKey(Head(ps), d)>>
         \o KeysInOrder(Tail(ps), d, seen \cup {GroupKey(Head(ps), d)})

\* Structural: group by path prefix; a group over max_size that still spans
\* deeper directories is subdivided by the next path segment.
RECURSIVE StructuralGroups(_, _, _, _)
StructuralGroups(repo_files, S, d, max_size) ==
  LET key(p) == GroupKey(p, d)
      keys == KeysInOrder(Ordered(S), d, {})
      group(k) == { p \in S : key(p) = k }
      part(k) ==
        IF /\ Cardinality(group(k)) > max_size
           /\ \E p \in group(k) : DirDepth(p) > d
        THEN StructuralGroups(repo_files, group(k), d + 1, max_size)
        ELSE << Section(k, Restrict(repo_files, group(k))) >>
  IN  FlattenSeqs([j \in 1..Len(keys) |-> part(keys[j])])

structural_analysis(repo_files, max_section_size) ==
  StructuralGroups(repo_files, DOMAIN repo_files, 1, max_section_size)

\* What a content imports, by module name: the lexical scan of the
\* heuristic dependency extraction.
ContentImports ==
  ("import b" :> {"b"}) @@ ("import d" :> {"d"}) @@ ("text" :> {})

\* The module name a path stands for: the file name without its extension
ModuleName(path) ==
  LET segs == Segments(path)
      cs == Chars(path)
      dots == { k \in 1..Len(cs) : cs[k] = "." }
      slashes == { k \in 1..Len(cs) : cs[k] = "/" }
      from == IF slashes = {} THEN 1
              ELSE (CHOOSE k \in slashes : \A m \in slashes : m <= k) + 1
      to == IF dots = {} THEN Len(cs)
            ELSE (CHOOSE k \in dots : \A m \in dots : m <= k) - 1
  IN  Str(SubSeq(cs, from, to))

\* Heuristic dependencies: src -> files of the map whose module name the
\* content of src imports.
extract_dependencies(repo_files) ==
  [ p \in DOMAIN repo_files |->
      { q \in DOMAIN repo_files \ {p} :
          ModuleName(q) \in ContentImports[repo_files[p]] } ]

\* Files linked to p by dependencies in either direction, within S
Linked(p, S, deps) ==
  { q \in S : \/ (p \in DOMAIN deps /\ q \in deps[p])
              \/ (q \in DOMAIN deps /\ p \in deps[q]) }

RECURSIVE Component(_, _, _)
Component(C, S, deps) ==
  LET C2 == C \cup UNION { Linked(p, S, deps) : p \in C }
  IN  IF C2 = C THEN C ELSE Component(C2, S, deps)

\* Stable-ordered chunks of at most max_size paths
RECURSIVE Chunks(_, _)
Chunks(ps, max_size) ==
  IF ps = <<>> THEN <<>>
  ELSE IF Len(ps) <= max_size THEN << ps >>
  ELSE << SubSeq(ps, 1, max_size) >>
         \o Chunks(SubSeq(ps, max_size + 1, Len(ps)), max_size)

\* The first file of each connected cluster, by first appearance
RECURSIVE ClusterFirsts(_, _, _, _)
ClusterFirsts(ps, S, deps, seen) ==
  IF ps = <<>> THEN <<>>
  ELSE LET f == Ordered(Component({Head(ps)}, S, deps))[1]
       IN  IF f \in seen THEN ClusterFirsts(Tail(ps), S, deps, seen)
           ELSE <<f>> \o ClusterFirsts(Tail(ps), S, deps, seen \cup {f})

NumStr == << "1", "2", "3", "4", "5", "6", "7", "8", "9" >>

\* Dependency: connected clusters of the graph, in order of their first
\* file, each split into stable-ordered chunks of at most max_size files.
group_by_dependencies(files, deps, max_size) ==
  LET S == DOMAIN files
      comp(p) == Component({p}, S, deps)
      firsts == ClusterFirsts(Ordered(S), S, deps, {})
      chunks == FlattenSeqs([j \in 1..Len(firsts) |->
                               Chunks(Ordered(comp(firsts[j])), max_size)])
  IN  [ j \in 1..Len(chunks) |->
          Section("group_" \o NumStr[j], Restrict(files, Range(chunks[j]))) ]

dependency_analysis(repo_files, max_section_size) ==
  group_by_dependencies(repo_files, extract_dependencies(repo_files),
                        max_section_size)

enhanced_dependency_analysis(repo_files, dependencies, max_section_size) ==
  group_by_dependencies(repo_files, dependencies, max_section_size)

\* Mutant of RefineLargeSections: subsections keep the name the grouping
\* gave them (line 125 is missing).
RefineLargeSections_KeepsSubName(structural_sections, dependencies, max_section_size) ==
  LET refine(sec) ==
        IF Cardinality(DOMAIN sec.files) > max_section_size
        THEN LET section_deps ==
                   [ src \in DOMAIN dependencies \cap DOMAIN sec.files |->
                       dependencies[src] \cap DOMAIN sec.files ]
             IN  group_by_dependencies(sec.files, section_deps,
                                       max_section_size)
        ELSE << sec >>
  IN  FlattenSeqs([k \in 1..Len(structural_sections) |->
                     refine(structural_sections[k])])

\* Mutant of RefineLargeSections: the else branch (line 129) is missing, so
\* sections within max_section_size are lost.
RefineLargeSections_DropsSmall(structural_sections, dependencies, max_section_size) ==
  LET refine(sec) ==
        IF Cardinality(DOMAIN sec.files) > max_section_size
        THEN LET section_deps ==
                   [ src \in DOMAIN dependencies \cap DOMAIN sec.files |->
                       dependencies[src] \cap DOMAIN sec.files ]
                 subsections == group_by_dependencies(sec.files, section_deps,
                                                      max_section_size)
             IN  [ j \in 1..Len(subsections) |->
                     Section(sec.name \o "/" \o subsections[j].name,
                             subsections[j].files) ]
        ELSE <<>>
  IN  FlattenSeqs([k \in 1..Len(structural_sections) |->
                     refine(structural_sections[k])])

\* lines 111-129: sections over max_section_size are regrouped by the
\* dependencies among their own files and renamed after the parent.
RefineLargeSections(structural_sections, dependencies, max_section_size) ==
  LET refine(sec) ==
        IF Cardinality(DOMAIN sec.files) > max_section_size
        THEN LET section_deps ==
                   [ src \in DOMAIN dependencies \cap DOMAIN sec.files |->
                       dependencies[src] \cap DOMAIN sec.files ]
                 subsections == group_by_dependencies(sec.files, section_deps,
                                                      max_section_size)
             IN  [ j \in 1..Len(subsections) |->
                     Section(sec.name \o "/" \o subsections[j].name,
                             subsections[j].files) ]
        ELSE << sec >>
  IN  FlattenSeqs([k \in 1..Len(structural_sections) |->
                     refine(structural_sections[k])])

\* Basic hybrid: structural sections refined with heuristic dependencies
hybrid_analysis(repo_files, max_section_size) ==
  RefineLargeSections(structural_analysis(repo_files, max_section_size),
                      extract_dependencies(repo_files), max_section_size)

\* What the search-backed extraction may report for a file map: nothing,
\* the references the contents show, or every file referring to the first
\* file and to src/c.py (which the map need not hold).
EnhancedDependencyChoices(repo_files) ==
  LET S == DOMAIN repo_files
  IN  { [p \in S |-> {}],
        extract_dependencies(repo_files),
        [p \in S |-> IF S = {} THEN {}
                     ELSE ({Ordered(S)[1]} \cup {"src/c.py"}) \ {p}] }

\* mergeSmall: while more than one section exists, the first section below
\* min_size is folded into the section that follows it (the last section
\* into the one before it); the merged section keeps the target's name.
RECURSIVE merge_small_sections(_, _)
merge_small_sections(secs, min_size) ==
  LET small == { k \in 1..Len(secs) :
                   Cardinality(DOMAIN secs[k].files) < min_size }
  IN  IF Len(secs) <= 1 \/ small = {} THEN secs
      ELSE LET k == CHOOSE x \in small : \A y \in small : x <= y
               t == IF k < Len(secs) THEN k + 1 ELSE k - 1
               merged == Section(secs[t].name,
                                 secs[k].files @@ secs[t].files)
               lo == IF k < t THEN k ELSE t
           IN  merge_small_sections(
                 SubSeq(secs, 1, lo - 1) \o << merged >>
                   \o SubSeq(secs, lo + 2, Len(secs)),
                 min_size)

\* ------------------------------------------------------------------------
\* SectionAnalyzer: the cache records
\* ------------------------------------------------------------------------

\* d[name] = value on a dict kept as a sequence of items in insertion order
RECURSIVE DictSet(_, _, _)
DictSet(items, name, value) ==
  IF items = <<>> THEN << [name |-> name, value |-> value] >>
  ELSE IF Head(items).name = name
       THEN << [name |-> name, value |-> value] >> \o Tail(items)
       ELSE << Head(items) >> \o DictSet(Tail(items), name, value)

\* lines 145-147: {section_name: list(files.keys())}
RECURSIVE CacheableSections(_)
CacheableSections(secs) ==
  IF secs = <<>> THEN <<>>
  ELSE DictSet(CacheableSections(SubSeq(secs, 1, Len(secs) - 1)),
               secs[Len(secs)].name,
               Ordered(DOMAIN secs[Len(secs)].files))

\* line 166: {name: len(files)}
RECURSIVE SectionSizes(_)
SectionSizes(secs) ==
  IF secs = <<>> THEN <<>>
  ELSE DictSet(SectionSizes(SubSeq(secs, 1, Len(secs) - 1)),
               secs[Len(secs)].name,
               Cardinality(DOMAIN secs[Len(secs)].files))

NoStructure == [present |-> FALSE, files |-> {}, sections |-> <<>>,
                section_method |-> None]

NoMetadata == [present |-> FALSE, section_count |-> 0,
               section_method |-> None, sections |-> <<>>]

\* RepoCache.get_repo_structure / get_repo_metadata
get_repo_structure(cache, owner, repo, br) ==
  IF CacheKey(owner, repo, br) \in DOMAIN cache
  THEN cache[CacheKey(owner, repo, br)]
  ELSE NoStructure

get_repo_metadata(cache, owner, repo, br) ==
  IF CacheKey(owner, repo, br) \in DOMAIN cache
  THEN cache[CacheKey(owner, repo, br)]
  ELSE NoMetadata

\* RepoCache.update_structure_cache(owner, repo, repo_files, branch): the
\* record is made from the file map it is handed, which carries the file
\* set and neither sections nor a method.
update_structure_cache(cache, owner, repo, repo_files, br) ==
  Put(cache, CacheKey(owner, repo, br),
      [present |-> TRUE, files |-> DOMAIN repo_files, sections |-> <<>>,
       section_method |-> None])

\* RepoCache.save_repo_metadata
save_repo_metadata(cache, owner, repo, metadata, br) ==
  Put(cache, CacheKey(owner, repo, br), metadata)

\* A structure record as a run that persists its sections leaves it
StructureRecord(secs, repo_files, method) ==
  [present |-> TRUE, files |-> DOMAIN repo_files,
   sections |-> CacheableSections(secs), section_method |-> method]

\* ------------------------------------------------------------------------
\* SectionAnalyzer.analyze_repository
\* ------------------------------------------------------------------------

MaxSectionSize == 2
MaxMinSize == 2

Methods == {"STRUCTURAL", "DEPENDENCY", "HYBRID"}

FileMaps ==
  { EmptyMap,
    ("README.md" :> "text") @@ ("src/a.py" :> "import b")
      @@ ("src/b.py" :> "text") @@ ("src/c.py" :> "text"),
    ("README.md" :> "text") @@ ("src/a.py" :> "text")
      @@ ("src/b.py" :> "text") @@ ("src/c.py" :> "import b"),
    ("src/a.py" :> "import d") @@ ("src/u/d.py" :> "text")
      @@ ("src/u/e.py" :> "text") }

\* (owner, repo) as a caller passes them
OwnerRepo == { <<None, None>>, <<Owner, None>>, <<Owner, Repo>> }

AArgSets ==
  { [repo_files |-> fm, method |-> m, max_section_size |-> mx,
     min_section_size |-> mn, owner |-> ow[1], repo |-> ow[2],
     branch |-> "main"] :
      fm \in FileMaps, m \in Methods, mx \in 1..MaxSectionSize,
      mn \in 1..MaxMinSize, ow \in OwnerRepo }

\* The basic strategy of a method
BasicStrategy(method, repo_files, max_section_size) ==
  CASE method = "DEPENDENCY" -> dependency_analysis(repo_files,
                                                    max_section_size)
    [] method = "HYBRID"     -> hybrid_analysis(repo_files, max_section_size)
    [] OTHER                 -> structural_analysis(repo_files,
                                                    max_section_size)

\* Structure records a cache may hold when the analyzer is constructed:
\* what earlier runs on these file maps persisted (run without and with the
\* largest size floor), or a record without sections.
StoredRecords ==
  { StructureRecord(
      IF mn > 1
      THEN merge_small_sections(BasicStrategy(m, fm, MaxSectionSize), mn)
      ELSE BasicStrategy(m, fm, MaxSectionSize),
      fm, m) :
      fm \in FileMaps, m \in {"STRUCTURAL", "DEPENDENCY"},
      mn \in {1, MaxMinSize} }
  \cup { StructureRecord(<<>>, fm, "DEPENDENCY") : fm \in FileMaps }

\* GithubClientBase.has_code_search: does the class define search_references
client_has_code_search(be) == be = "mcp"

\* SectionAnalyzer.__init__, lines 40-43
init_has_code_search(client) ==
  IF client # None THEN client_has_code_search(client) ELSE FALSE

IsSet(x) == x # None

\* Mutant of ConsultsCache: the hybrid method is left out of the list.
ConsultsCache_DependencyOnly(uc, owner, repo, method) ==
  uc /\ IsSet(owner) /\ IsSet(repo) /\ method \in {"DEPENDENCY"}

\* line 68: is the structure cache consulted
ConsultsCache(uc, owner, repo, method) ==
  uc /\ IsSet(owner) /\ IsSet(repo) /\ method \in {"DEPENDENCY", "HYBRID"}

\* line 75: the stored file set equals the key set of repo_files
FingerprintMatches(repo_files, cached) ==
  DOMAIN repo_files = cached.files

\* lines 79-83: sections rebuilt from the stored mapping, content taken from
\* the current repo_files, empty sections left out
ReplaySections(repo_files, cached_sections) ==
  LET rebuilt == [ k \in 1..Len(cached_sections) |->
                     Section(cached_sections[k].name,
                             Restrict(repo_files,
                                      Range(cached_sections[k].value)
                                        \cap DOMAIN repo_files)) ]
      NonEmpty(sec) == Truthy(sec.files)
  IN  SelectSeq(rebuilt, NonEmpty)

\* Mutant of UsesEnhanced: the capability flag is not read.
UsesEnhanced_IgnoresCapability(hcs, owner, repo) ==
  IsSet(owner) /\ IsSet(repo)

\* lines 92, 101: is the search-backed path taken
UsesEnhanced(hcs, owner, repo) == hcs /\ IsSet(owner) /\ IsSet(repo)

\* Mutant of RunsMerge: the threshold is off by one.
RunsMerge_OffByOne(min_section_size) == min_section_size > 2

\* line 139: is the merge pass run
RunsMerge(min_section_size) == min_section_size > 1

\* line 143: is anything persisted
Persists(uc, owner, repo) == uc /\ IsSet(owner) /\ IsSet(repo)

IdleArgs == [repo_files |-> EmptyMap, method |-> "DEPENDENCY",
             max_section_size |-> 1, min_section_size |-> 1,
             owner |-> None, repo |-> None, branch |-> "main"]

InitAnalyzerLocals ==
  /\ apc = "idle"
  /\ aargs = IdleArgs
  /\ sections = <<>>
  /\ structure_data = NoStructure
  /\ aret = <<>>
  /\ replayed = FALSE
  /\ strategyCalls = {}
  /\ mergeCalls = 0
  /\ searchCalls = 0
  /\ metaCache = EmptyMap

InitAnalyzer ==
  /\ github_client \in {None, "direct", "mcp"}
  /\ has_code_search = init_has_code_search(github_client)
  /\ sa_use_cache \in BOOLEAN
  /\ structCache \in
       IF sa_use_cache
       THEN {EmptyMap} \cup { CacheKey(Owner, Repo, "main") :> r :
                                r \in StoredRecords }
       ELSE {EmptyMap}
  /\ InitAnalyzerLocals

\* A caller invokes analyze_repository(repo_files, method, ...).
ACall(a) ==
  /\ apc = "idle"
  /\ apc' = "entry"
  /\ aargs' = a
  /\ UNCHANGED cvars
  /\ UNCHANGED mvars
  /\ UNCHANGED <<github_client, sa_use_cache, has_code_search, structCache,
                 metaCache, sections, structure_data, aret, replayed,
                 strategyCalls, mergeCalls, searchCalls>>

\* The caller has the SectionSet; the call's locals are gone.
AReturn ==
  /\ apc = "done"
  /\ apc' = "idle"
  /\ aargs' = IdleArgs
  /\ sections' = <<>>
  /\ structure_data' = NoStructure
  /\ aret' = <<>>
  /\ replayed' = FALSE
  /\ strategyCalls' = {}
  /\ mergeCalls' = 0
  /\ searchCalls' = 0
  /\ UNCHANGED cvars
  /\ UNCHANGED mvars
  /\ UNCHANGED <<github_client, sa_use_cache, has_code_search, structCache,
                 metaCache>>

\* lines 67-87: the cache short-circuit
ACheckCache ==
  /\ apc = "entry"
  /\ LET cached == get_repo_structure(structCache, aargs.owner, aargs.repo,
                                      aargs.branch)
         rebuilt == ReplaySections(aargs.repo_files, cached.sections)
     IN  IF /\ ConsultsCache(sa_use_cache, aargs.owner, aargs.repo,
                             aargs.method)
            /\ cached.present
            /\ FingerprintMatches(aargs.repo_files, cached)
            /\ cached.sections # <<>>
            /\ rebuilt # <<>>
         THEN /\ aret' = rebuilt
              /\ replayed' = TRUE
              /\ apc' = "done"
         ELSE /\ apc' = "dispatch"
              /\ UNCHANGED <<aret, replayed>>
  /\ UNCHANGED cvars
  /\ UNCHANGED mvars
  /\ UNCHANGED <<github_client, sa_use_cache, has_code_search, structCache,
                 metaCache, aargs, sections, structure_data, strategyCalls,
                 mergeCalls, searchCalls>>

\* lines 89-136: the strategy of the method is run
ADispatch ==
  /\ apc = "dispatch"
  /\ LET rf == aargs.repo_files
         mx == aargs.max_section_size
         enhanced == UsesEnhanced(has_code_search, aargs.owner, aargs.repo)
     IN  IF aargs.method \in {"DEPENDENCY", "HYBRID"} /\ enhanced
         THEN \E dependencies \in EnhancedDependencyChoices(rf) :
                /\ searchCalls' = Cardinality(DOMAIN rf)
                /\ IF aargs.method = "DEPENDENCY"
                   THEN /\ sections' = enhanced_dependency_analysis(
                                         rf, dependencies, mx)
                        /\ strategyCalls' = {"enhanced_dependency_analysis"}
                   ELSE /\ sections' = RefineLargeSections(
                                         structural_analysis(rf, mx),
                                         dependencies, mx)
                        /\ strategyCalls' = {"structural_analysis",
                                             "_extract_enhanced_dependencies"}
         ELSE /\ sections' = BasicStrategy(aargs.method, rf, mx)
              /\ strategyCalls' =
                   { CASE aargs.method = "DEPENDENCY" -> "dependency_analysis"
                       [] aargs.method = "HYBRID"     -> "hybrid_analysis"
                       [] OTHER                       -> "structural_analysis" }
              /\ UNCHANGED searchCalls
  /\ apc' = "merge"
  /\ UNCHANGED cvars
  /\ UNCHANGED mvars
  /\ UNCHANGED <<github_client, sa_use_cache, has_code_search, structCache,
                 metaCache, aargs, structure_data, aret, replayed,
                 mergeCalls>>

\* lines 138-140: the min-size merge pass
AMerge ==
  /\ apc = "merge"
  /\ IF RunsMerge(aargs.min_section_size)
     THEN /\ sections' = merge_small_sections(sections,
                                              aargs.min_section_size)
          /\ mergeCalls' = mergeCalls + 1
     ELSE UNCHANGED <<sections, mergeCalls>>
  /\ apc' = "persist"
  /\ UNCHANGED cvars
  /\ UNCHANGED mvars
  /\ UNCHANGED <<github_client, sa_use_cache, has_code_search, structCache,
                 metaCache, aargs, structure_data, aret, replayed,
                 strategyCalls, searchCalls>>

\* lines 142-169: structure_data is assembled, update_structure_cache is
\* handed repo_files, the metadata record is saved, sections are returned
APersist ==
  /\ apc = "persist"
  /\ IF Persists(sa_use_cache, aargs.owner, aargs.repo)
     THEN /\ structure_data' =
               StructureRecord(sections, aargs.repo_files, aargs.method)
          /\ structCache' = update_structure_cache(
                              structCache, aargs.owner, aargs.repo,
                              aargs.repo_files, aargs.branch)
          /\ metaCache' = save_repo_metadata(
                            metaCache, aargs.owner, aargs.repo,
                            [present |-> TRUE,
                             section_count |-> Len(sections),
                             section_method |-> aargs.method,
                             sections |-> SectionSizes(sections)],
                            aargs.branch)
     ELSE UNCHANGED <<structure_data, structCache, metaCache>>
  /\ aret' = sections
  /\ apc' = "done"
  /\ UNCHANGED cvars
  /\ UNCHANGED mvars
  /\ UNCHANGED <<github_client, sa_use_cache, has_code_search, aargs,
                 sections, replayed, strategyCalls, mergeCalls, searchCalls>>

NextAnalyzer ==
  \/ \E a \in AArgSets : ACall(a)
  \/ ACheckCache
  \/ ADispatch
  \/ AMerge
  \/ APersist
  \/ AReturn

InitAnalyzerIdle ==
  /\ github_client = None
  /\ has_code_search = FALSE
  /\ sa_use_cache = FALSE
  /\ structCache = EmptyMap
  /\ InitAnalyzerLocals

InitClientIdle ==
  /\ backend = "base"
  /\ use_cache = FALSE
  /\ InitClientLocals

\* ------------------------------------------------------------------------
\* GithubClientMCP: call_mcp_tool, search_code, search_references
\* ------------------------------------------------------------------------

\* search_code: default of max_results
DefaultMaxResults == 100

\* search_code: the page length GitHub allows (line 198)
GithubPageLimit == 100

Min(a, b) == IF a < b THEN a ELSE b

Digits == << "0", "1", "2", "3", "4", "5", "6", "7", "8", "9" >>

\* str(n)
RECURSIVE Dec(_)
Dec(n) == IF n < 10 THEN Digits[n + 1]
          ELSE Dec(n \div 10) \o Digits[(n % 10) + 1]

\* The n-th file of the repository that a search may report
HitPath(n) == "lib/m" \o Dec(n) \o ".py"

\* Files n..m, in order
HitRange(n, m) == [k \in 1..(m - n + 1) |-> HitPath(n + k - 1)]

\* How subprocess.run ended: it timed out, it could not be started, or the
\* process completed with a return code and an output that parses or not
Proc(kind, returncode, parses, json) ==
  [kind |-> kind, returncode |-> returncode, parses |-> parses, json |-> json]

NoResponse == [items |-> <<>>, total_count |-> 0]

Raise(cls, msg) ==
  [raised |-> TRUE, cls |-> cls, msg |-> msg, value |-> NoResponse]

\* Mutant of call_mcp_tool: the timeout is reported like a failed call.
call_mcp_tool_TimeoutAsFailure(tool_name, proc) ==
  CASE proc.kind = "timeout" ->
         Raise("Exception", "Failed to call GitHub MCP tool " \o tool_name)
    [] proc.kind = "oserror" -> Raise("FileNotFoundError", "No such file")
    [] proc.kind = "completed" /\ proc.returncode # 0 ->
         Raise("Exception", "Failed to call GitHub MCP tool " \o tool_name)
    [] proc.kind = "completed" /\ proc.returncode = 0 /\ ~proc.parses ->
         Raise("Exception",
               "Invalid JSON response from GitHub MCP tool " \o tool_name)
    [] OTHER -> [raised |-> FALSE, cls |-> None, msg |-> "",
                 value |-> proc.json]

\* call_mcp_tool, given how its one subprocess.run ended: the response, or
\* the exception that leaves the method
call_mcp_tool(tool_name, proc) ==
  CASE proc.kind = "timeout" ->
         Raise("Exception", "Timeout calling GitHub MCP tool " \o tool_name)
    [] proc.kind = "oserror" -> Raise("FileNotFoundError", "No such file")
    [] proc.kind = "completed" /\ proc.returncode # 0 ->
         Raise("Exception", "Failed to call GitHub MCP tool " \o tool_name)
    [] proc.kind = "completed" /\ proc.returncode = 0 /\ ~proc.parses ->
         Raise("Exception",
               "Invalid JSON response from GitHub MCP tool " \o tool_name)
    [] OTHER -> [raised |-> FALSE, cls |-> None, msg |-> "",
                 value |-> proc.json]

\* The ways one subprocess.run may end when the remote would answer json
ProcOutcomes(json) ==
  { Proc("timeout", 0, FALSE, NoResponse),
    Proc("oserror", 0, FALSE, NoResponse),
    Proc("completed", 1, FALSE, NoResponse),
    Proc("completed", 0, FALSE, NoResponse),
    Proc("completed", 0, TRUE, json) }

\* The page the remote serves: page_size items of its hits, and the count
\* it reports
SearchResponse(h, pg, size, count) ==
  [ items |-> SubSeq(h, (pg - 1) * size + 1, Min(pg * size, Len(h))),
    total_count |-> count ]

\* os.path.basename(filepath)
basename(path) == Segments(path)[Len(Segments(path))]

\* os.path.basename(os.path.dirname(filepath))
dir_name(path) ==
  IF Len(Segments(path)) < 2 THEN ""
  ELSE Segments(path)[Len(Segments(path)) - 1]

\* lines 240-260: the queries for a file
Queries(path) ==
  LET filename == basename(path)
      name == ModuleName(filename)
      module_name == IF name = "__init__" /\ dir_name(path) # ""
                     THEN dir_name(path) ELSE name
  IN  << "\"" \o filename \o "\"" >>
      \o IF EndsWith(filename, ".py")
         THEN << "\"import " \o module_name \o "\"",
                 "\"from " \o module_name \o "\"" >>
         ELSE << >>

\* Mutant of AddReferences: the file itself is not skipped.
AddReferences_KeepsSelf(refs, search_results, path) ==
  refs \cup Range(search_results)

\* lines 267-272: the results of one query are added, the file itself not
AddReferences(refs, search_results, path) ==
  refs \cup (Range(search_results) \ {path})

\* Mutant of Truncate: the final slice is missing.
Truncate_KeepsAll(rs, max_results) == rs

\* line 220: results[:max_results]
Truncate(rs, max_results) == SubSeq(rs, 1, Min(Len(rs), max_results))

\* Files search_references is asked about
SearchedFiles == {"src/a.py", "README.md", "src/u/__init__.py"}

\* What the remote may hold for a query about path
HitLists(path) ==
  { << >>,
    << HitPath(1), path, HitPath(2), HitPath(1) >>,
    << path >> \o HitRange(1, 99),
    HitRange(61, 210) }

\* line 198: the page length search_code asks for
per_page == Min(GithubPageLimit, DefaultMaxResults)

\* How many items the remote puts on a page of hits h: what it was asked
\* for, fewer (down to one, for the longest list), or more
RemotePageSizes(h) ==
  {60, per_page, 150} \cup (IF Len(h) > DefaultMaxResults THEN {1} ELSE {})

\* The total_count the remote reports for hits h: their number, nothing, or
\* more than it will ever serve
ReportedTotals(h) == {Len(h), 0, Len(h) + DefaultMaxResults}

NoTool == [tool |-> "", kind |-> "", raised |-> FALSE, cls |-> None,
           msg |-> ""]

InitSearchLocals ==
  /\ spc = "idle"
  /\ filepath = "README.md"
  /\ queries = <<>>
  /\ query = ""
  /\ hits = <<>>
  /\ page_size = per_page
  /\ total = 0
  /\ results = <<>>
  /\ page = 1
  /\ references = {}
  /\ answers = <<>>
  /\ sret = {}
  /\ lastTool = NoTool
  /\ toolCalls = 0
  /\ toolRuns = 0

\* A caller invokes search_references(owner, repo, filepath).
SRCall(path) ==
  /\ spc \in {"idle", "done"}
  /\ spc' = "query"
  /\ filepath' = path
  /\ queries' = Queries(path)
  /\ query' = ""
  /\ hits' = <<>>
  /\ page_size' = per_page
  /\ total' = 0
  /\ results' = <<>>
  /\ page' = 1
  /\ references' = {}
  /\ answers' = <<>>
  /\ sret' = {}
  /\ lastTool' = NoTool
  /\ toolCalls' = 0
  /\ toolRuns' = 0
  /\ UNCHANGED cvars
  /\ UNCHANGED avars

\* lines 264-265, 274: the for loop takes the next query and calls
\* search_code (lines 190-198), or ends and the set is returned
SRNextQuery ==
  /\ spc = "query"
  /\ IF queries = <<>>
     THEN /\ sret' = references
          /\ spc' = "done"
          /\ UNCHANGED <<queries, query, hits, page_size, total, results,
                         page>>
     ELSE /\ query' = Head(queries)
          /\ queries' = Tail(queries)
          /\ hits' \in HitLists(filepath)
          /\ page_size' \in RemotePageSizes(hits')
          /\ total' \in ReportedTotals(hits')
          /\ results' = <<>>
          /\ page' = 1
          /\ spc' = "page"
          /\ UNCHANGED sret
  /\ UNCHANGED <<filepath, references, answers, lastTool, toolCalls,
                 toolRuns>>
  /\ UNCHANGED cvars
  /\ UNCHANGED avars

\* search_code returns found to search_references, which adds it; the
\* locals of search_code are gone
SearchReturns(found) ==
  /\ answers' = Append(answers, found)
  /\ references' = AddReferences(references, found, filepath)
  /\ spc' = "query"
  /\ hits' = <<>>
  /\ page_size' = per_page
  /\ total' = 0
  /\ results' = <<>>
  /\ page' = 1
  /\ toolCalls' = 0
  /\ toolRuns' = 0

\* lines 200-224: one iteration of the while loop of search_code, with its
\* call_mcp_tool call; on leaving the loop or on an exception search_code
\* returns and lines 267-272 add what it returned
SCPage ==
  /\ spc = "page"
  /\ \E proc \in ProcOutcomes(SearchResponse(hits, page, page_size,
                                              total)) :
       LET r == call_mcp_tool("search_code", proc)
           items == r.value.items
           extended == results \o items
       IN  /\ lastTool' = [tool |-> "search_code", kind |-> proc.kind,
                           raised |-> r.raised, cls |-> r.cls,
                           msg |-> r.msg]
           /\ IF r.raised
              THEN SearchReturns(<<>>)
              ELSE IF items = <<>>
              THEN SearchReturns(Truncate(results, DefaultMaxResults))
              ELSE IF \/ Len(extended) >= r.value.total_count
                      \/ Len(extended) >= DefaultMaxResults
              THEN SearchReturns(Truncate(extended, DefaultMaxResults))
              ELSE /\ results' = extended
                   /\ page' = page + 1
                   /\ toolCalls' = toolCalls + 1
                   /\ toolRuns' = toolRuns + 1
                   /\ UNCHANGED <<answers, references, spc, hits, page_size,
                                  total>>
  /\ UNCHANGED <<filepath, queries, query, sret>>
  /\ UNCHANGED cvars
  /\ UNCHANGED avars

NextSearch ==
  \/ \E path \in SearchedFiles : SRCall(path)
  \/ SRNextQuery
  \/ SCPage

\* ------------------------------------------------------------------------
\* Specifications
\* ------------------------------------------------------------------------

\* The client: calls of get_repository_structure, one after another
Init == InitClient /\ InitAnalyzerIdle /\ InitSearchLocals

Spec == Init /\ [][NextClient]_vars

\* A client constructed without a cache, whose every call traverses
InitTraversal == Init /\ ~use_cache

\* Its calls, with the thread that runs collect_file_paths running on: every
\* listing call returns or raises and the next statement follows
SpecTraversalFair ==
  InitTraversal /\ [][NextClient]_vars /\ WF_vars(EnterDir)
    /\ WF_vars(NextItem)

\* The analyzer: calls of analyze_repository, one after another
InitAnalyze == InitAnalyzer /\ InitClientIdle /\ InitSearchLocals

SpecAnalyze == InitAnalyze /\ [][NextAnalyzer]_vars

\* The bridged client: calls of search_references, one after another
InitSearch == InitSearchLocals /\ InitClientIdle /\ InitAnalyzerIdle

SpecSearch == InitSearch /\ [][NextSearch]_vars

\* The same, with the loop of search_code running on: every call_mcp_tool
\* call ends (its subprocess is given 180 seconds) and the next iteration
\* follows
SpecSearchFair == InitSearch /\ [][NextSearch]_vars /\ WF_vars(SCPage)

\* ------------------------------------------------------------------------
\* Properties of get_repository_structure
\* ------------------------------------------------------------------------

NoRemoteCall == listCalls = EmptyMap /\ fetchCalls = EmptyMap /\ branchCalls = 0

FailedPaths == { p \in DOMAIN outcome : outcome[p] = "fail" }

\* C1: with caching enabled, no forced refresh and a file map stored for
\* (owner, repo, branch), the step taken at entry returns the stored map, and
\* no listing, no content fetch and no default-branch lookup has been issued.
C1_CacheHitTouchesNoRemote ==
  [][ ( /\ pc = "entry"
        /\ use_cache
        /\ ~args.force_refresh
        /\ get_repo_files(fileCache, Owner, Repo, args.branch).present )
      => ( /\ pc' = "done"
           /\ returned' = get_repo_files(fileCache, Owner, Repo,
                                         args.branch).files
           /\ NoRemoteCall' ) ]_cvars

\* A call that returned a stored, non-empty map without any remote call.
C1_Witness ==
  /\ pc = "done"
  /\ use_cache
  /\ ~args.force_refresh
  /\ Truthy(returned)
  /\ NoRemoteCall

C3_BoundedSequentialBatches ==
  /\ Cardinality(running) <= args.max_workers
  /\ running \subseteq BatchIdx(all_file_paths, i, args.batch_size)
  /\ Cardinality(BatchIdx(all_file_paths, i, args.batch_size))
       <= args.batch_size
  /\ (running # {} \/ queued # <<>>) =>
       \A j \in 1..(i - 1) : j \in completed

\* A fetch in flight in a later batch, every earlier task completed, in a
\* call whose batches are larger than the worker limit (so the first batch
\* kept a submitted task waiting).
C3_Witness ==
  /\ pc = "fetch"
  /\ i > 1
  /\ running # {}
  /\ Cardinality(running) = args.max_workers
  /\ args.batch_size > args.max_workers
  /\ completed = 1..(i - 1)

\* C9: the step that ends the traversal or the fetch phase writes exactly the
\* returned map under (owner, repo, branch) when caching is enabled and the
\* map is non-empty, and leaves the cache alone otherwise.
C9_WriteThroughIffNonEmpty ==
  [][ (pc \in {"collect", "fetch"} /\ pc' = "done")
      => IF use_cache /\ Truthy(returned')
         THEN fileCache' = Put(fileCache, CacheKey(Owner, Repo, branch),
                               [present |-> TRUE, files |-> returned'])
         ELSE fileCache' = fileCache ]_cvars

\* A forced refresh that fetched and wrote its non-empty result through.
C9_Witness ==
  /\ pc = "done"
  /\ use_cache
  /\ args.force_refresh
  /\ fetchCalls # EmptyMap
  /\ Truthy(returned)
  /\ get_repo_files(fileCache, Owner, Repo, branch).files = returned

\* C10: default-branch resolution never raises to the caller, whichever the
\* backend: a call never ends with an exception.
C10_DefaultBranchNeverRaises ==
  pc # "raised"


\* The items a backend reports for a directory of the remote
Listing(d) == list_repository_files(backend, remote.tree[d])

\* Directories whose listing call returned in this call
ListedDirs == visited_dirs \ listFailed

\* The traversal of this call has just run to its end (line 199 returned):
\* all_file_paths, visited_dirs and the listing records are final, and the
\* fetch phase, which leaves them alone, has not begun.
Collected ==
  /\ pc = "collect"
  /\ stack = <<>>
  /\ listCalls # EmptyMap

\* Every content fetch is issued for a task of the candidate list
FetchesAreCandidates == DOMAIN fetchCalls \subseteq DOMAIN all_file_paths

\* C11: a file entry any listing reports with a size over max_file_size is
\* not in the candidate list the traversal ends with, whatever the
\* extension allow-list and the include patterns are, and only candidates
\* are fetched.
C11_OversizedNeverCandidate ==
  /\ Collected =>
       \A d \in DOMAIN remote.tree : \A k \in 1..Len(Listing(d)) :
         LET item == Listing(d)[k]
         IN  (item.type = "file" /\ item.size > args.cfg.max_file_size) =>
               item.path \notin Range(all_file_paths)
  /\ FetchesAreCandidates

\* A finished call that listed the large file README, which matches an
\* include pattern, and returned other files.
C11_Witness ==
  /\ pc = "done"
  /\ remote = RemoteOdd
  /\ "README" \in ListedDirs
  /\ \E pat \in args.cfg.include_patterns : Contains(pat, "README")
  /\ Truthy(returned)
  /\ "README" \notin DOMAIN returned

\* C12: with an extension allow-list, every candidate matches an extension
\* or holds an include pattern; a listed file (not ignored, within size)
\* that holds an include pattern and matches no extension is a candidate,
\* and one that does neither is not; README.md is included and notes.txt
\* excluded under extensions {".py"} and include patterns {"README"}.
C12_ExtensionFilterWithOverride ==
  LET ExtOk(q) == \E ext \in args.cfg.extensions : EndsWith(q, ext)
      PatOk(q) == \E pat \in args.cfg.include_patterns : Contains(pat, q)
  IN  /\ (Collected /\ args.cfg.extensions # {}) =>
           /\ \A q \in Range(all_file_paths) : ExtOk(q) \/ PatOk(q)
           /\ \A d \in ListedDirs : \A k \in 1..Len(Listing(d)) :
                LET item == Listing(d)[k]
                IN  ( /\ item.type = "file"
                      /\ ~IsIgnored(item.path, ignore_dirs)
                      /\ WithinSize(item.size, args.cfg.max_file_size)
                      /\ ~ExtOk(item.path) ) =>
                      (PatOk(item.path) <=>
                         item.path \in Range(all_file_paths))
      /\ should_include_file("README.md", {".py"}, {"README"})
      /\ ~should_include_file("src/notes.txt", {".py"}, {"README"})

\* A finished call under the allow-list that listed src and returned
\* README.md but not src/notes.txt.
C12_Witness ==
  /\ pc = "done"
  /\ remote = RemotePlain
  /\ args.cfg.extensions # {}
  /\ "src" \in ListedDirs
  /\ "README.md" \in DOMAIN returned
  /\ "src/a.py" \in DOMAIN returned
  /\ "src/notes.txt" \notin DOMAIN returned

\* C13: when the traversal ends, no candidate holds an ignored-directory
\* token and no listing call was issued for a directory whose path holds
\* one; the fetch phase fetches candidates only and lists nothing more.
C13_IgnoredNeverListed ==
  LET HoldsToken(q) == \E t \in ignore_dirs : Contains(t, q)
  IN  /\ Collected =>
           /\ \A q \in Range(all_file_paths) : ~HoldsToken(q)
           /\ \A d \in DOMAIN listCalls : ~HoldsToken(d)
      /\ pc = "fetch" =>
           /\ DOMAIN fetchCalls \subseteq DOMAIN all_file_paths
           /\ DOMAIN listCalls = visited_dirs

\* A finished call whose root listing reported the ignored directory build
\* and that never listed it.
C13_Witness ==
  /\ pc = "done"
  /\ remote = RemotePlain
  /\ "" \in ListedDirs
  /\ "build" \notin DOMAIN listCalls
  /\ Truthy(returned)
  /\ "build/x.py" \notin DOMAIN returned

\* C14: within one call no directory is listed more than once, whatever
\* tree the remote reports.
C14_DirectoryListedOnce ==
  \A d \in DOMAIN listCalls : listCalls[d] <= 1

\* A finished call on the remote that reports src twice and inside itself,
\* with src listed (once).
C14_Witness ==
  /\ pc = "done"
  /\ remote = RemoteOdd
  /\ "src" \in ListedDirs
  /\ "" \in ListedDirs
  /\ listCalls["src"] = 1
  /\ "src/a.py" \in DOMAIN returned

\* C17: when listings fail, every directory reported by a listing that
\* succeeded is still visited and every file such a listing reports that
\* passes the filters is still a candidate; no exception leaves the call.
C17_ListingFailureSkipsSubtreeOnly ==
  /\ Collected =>
       \A d \in ListedDirs : \A k \in 1..Len(Listing(d)) :
         LET item == Listing(d)[k]
         IN  ~IsIgnored(item.path, ignore_dirs) =>
               /\ item.type = "dir" => item.path \in visited_dirs
               /\ ( /\ item.type = "file"
                    /\ WithinSize(item.size, args.cfg.max_file_size)
                    /\ should_include_file(item.path, args.cfg.extensions,
                                           args.cfg.include_patterns) )
                    => item.path \in Range(all_file_paths)
  /\ listFailed # {} => pc # "raised"

\* A finished call in which the listing of src failed, the directory
\* reported after it was listed, and README.md was returned.
C17_Witness ==
  /\ pc = "done"
  /\ remote = RemoteOdd
  /\ "src" \in listFailed
  /\ "README" \in ListedDirs
  /\ "README.md" \in DOMAIN returned

\* Number of file entries the listings of the remote report for a path
FileReports(q) ==
  Cardinality({ e \in UNION { {<<d, k>> : k \in 1..Len(Listing(d))} :
                              d \in DOMAIN remote.tree } :
                  /\ Listing(e[1])[e[2]].type = "file"
                  /\ Listing(e[1])[e[2]].path = q })

\* Number of fetch tasks for a path
Tasks(q) == Cardinality({ k \in 1..Len(all_file_paths) :
                            all_file_paths[k] = q })

\* The map the candidates and the per-path outcomes determine
ExpectedMap ==
  [ q \in Range(all_file_paths) \ FailedPaths |-> ContentOf(remote, q) ]

\* C20 as claimed: the returned map is the one the candidate list and the
\* per-path fetch outcomes determine, whatever the order of completion, and
\* no two tasks of one batch have the same path.
C20_OrderIndependentUniqueKeys ==
  /\ (pc = "done" /\ all_file_paths # <<>>) => returned = ExpectedMap
  /\ \A k, j \in BatchIdx(all_file_paths, i, args.batch_size) :
       k # j => all_file_paths[k] # all_file_paths[j]

\* C20 as amended: the returned map is the one the candidate list and the
\* per-path fetch outcomes determine, whatever the order of completion; a
\* path has more than one fetch task only if the listings report it as a
\* file more than once.
C20_OrderIndependentMap ==
  /\ (pc = "done" /\ all_file_paths # <<>>) => returned = ExpectedMap
  /\ Collected =>
       \A q \in Range(all_file_paths) : FileReports(q) <= 1 => Tasks(q) <= 1

\* A finished call with two workers on a batch of two, on the remote that
\* reports src twice and README.md twice: src/a.py was fetched by one task.
C20_Witness ==
  /\ pc = "done"
  /\ remote = RemoteOdd
  /\ args.max_workers = 2
  /\ args.batch_size = 2
  /\ Tasks("src/a.py") = 1
  /\ Tasks("README.md") = 2
  /\ FailedPaths = {}
  /\ returned = ExpectedMap
  /\ Cardinality(DOMAIN returned) = 2

\* C21: with caching enabled and branch unspecified, the step that writes
\* a non-empty result through stores it under the key the same call looked
\* up at entry (owner, repo, branch as passed), so that an identical second
\* call finds it.
C21_WrittenKeyIsLookedUpKey ==
  [][ ( /\ pc = "fetch"
        /\ pc' = "done"
        /\ use_cache
        /\ args.branch = None
        /\ Truthy(result) )
      => get_repo_files(fileCache', Owner, Repo, args.branch)
           = [present |-> TRUE, files |-> returned'] ]_cvars

\* C22: the step that ends the fetch phase writes a file map to the cache
\* only if the map holds every candidate of the run; a run in which a fetch
\* failed leaves the cache as it was.
C22_OnlyCompleteMapsStored ==
  [][ (pc = "fetch" /\ pc' = "done")
      => /\ fileCache' # fileCache =>
              Range(all_file_paths) \subseteq
                DOMAIN get_repo_files(fileCache', Owner, Repo, branch).files
         /\ FailedPaths # {} => fileCache' = fileCache ]_cvars

\* Content fetches issued for a path in this call, over all its tasks
FetchesOf(q) ==
  Cardinality({ k \in DOMAIN fetchCalls : all_file_paths[k] = q })

\* Every fetch task and every directory was requested from the remote at
\* most once in this call, failed or not.
NothingReissued ==
  /\ \A k \in DOMAIN fetchCalls : fetchCalls[k] = 1
  /\ \A d \in DOMAIN listCalls : listCalls[d] = 1
  /\ listFailed \subseteq DOMAIN listCalls

\* C25 (as stated): no fetch and no listing is issued a second time, a call
\* that fetched has issued as many fetches as it collected candidates, and
\* each candidate path was fetched exactly once.
C25_EachPathFetchedOnce ==
  /\ NothingReissued
  /\ (pc = "done" /\ all_file_paths # <<>>) =>
       /\ DOMAIN fetchCalls = DOMAIN all_file_paths
       /\ \A q \in Range(all_file_paths) : FetchesOf(q) = 1

\* C25 (amended): no fetch and no listing is issued a second time, a call
\* that fetched has issued as many fetches as the candidate list has
\* entries, one per entry; a path is fetched once for each time it stands
\* in the candidate list.
C25_EachTaskFetchedOnce ==
  /\ NothingReissued
  /\ (pc = "done" /\ all_file_paths # <<>>) =>
       /\ DOMAIN fetchCalls = DOMAIN all_file_paths
       /\ \A q \in Range(all_file_paths) : FetchesOf(q) = Tasks(q)

\* A finished call in which a listing failed and a fetch failed, on the
\* remote that reports README.md twice.
C25_Witness ==
  /\ pc = "done"
  /\ remote = RemoteOdd
  /\ listFailed # {}
  /\ FailedPaths # {}
  /\ Truthy(returned)
  /\ FetchesOf("README.md") = 2
  /\ NothingReissued

\* C28: when the traversal ends, no candidate has a suffix of the binary
\* skip-list, whatever the extension allow-list and the include patterns
\* are.
C28_BinaryNeverCandidate ==
  Collected =>
    \A q \in Range(all_file_paths) :
      ~(\E ext \in binary_extensions : EndsWith(q, ext))

\* collect_file_paths is running
Traversing == pc = "collect" /\ stack # <<>>

\* The directory paths the remote can make the traversal enter: the root and
\* every path a listing reports as a directory
DirPaths ==
  {""} \cup UNION { { Listing(d)[k].path :
                        k \in { n \in 1..Len(Listing(d)) :
                                  Listing(d)[n].type = "dir" } } :
                    d \in DOMAIN remote.tree }

\* Directory paths not yet entered
Unvisited == Cardinality(DirPaths \ visited_dirs)

\* Work left in the active collect_file_paths calls: two per item still to
\* be looked at and one per call to return from
RECURSIVE Pending(_)
Pending(s) ==
  IF s = <<>> THEN 0
  ELSE Pending(SubSeq(s, 1, Len(s) - 1))
         + (IF Top(s).listed
            THEN 2 * (Len(Top(s).items) - Top(s).idx + 1) + 1
            ELSE 1)

\* C29: every step of the traversal enters a directory path not entered
\* before, of which the remote has finitely many, or else leaves less work
\* in the active calls, whether listings repeat, contain themselves or
\* fail; so the traversal ends, and it has ended before the first content
\* fetch is issued, after which no listing is issued.
C29_TraversalTerminatesBeforeFetch ==
  /\ [][ Traversing =>
           \/ Unvisited' < Unvisited
           \/ (Unvisited' = Unvisited /\ Pending(stack') < Pending(stack))
       ]_cvars
  /\ [](fetchCalls # EmptyMap => (stack = <<>> /\ pc \in {"fetch", "done"}))
  /\ [][ pc = "fetch" => (listCalls' = listCalls /\ stack' = <<>>) ]_cvars
  /\ (Traversing ~> ~Traversing)

\* The traversal of the remote that lists src inside itself has ended after
\* a failed listing, and the first fetch is in flight.
C29_Witness ==
  /\ pc = "fetch"
  /\ remote = RemoteOdd
  /\ "src" \in ListedDirs
  /\ listFailed # {}
  /\ running # {}
  /\ Cardinality(DOMAIN fetchCalls) = 1
  /\ stack = <<>>


\* ------------------------------------------------------------------------
\* Properties of analyze_repository
\* ------------------------------------------------------------------------

CachedAtEntry == get_repo_structure(structCache, aargs.owner, aargs.repo,
                                    aargs.branch)

KeyGiven == IsSet(aargs.owner) /\ IsSet(aargs.repo)

NoStrategyRun == strategyCalls = {} /\ mergeCalls = 0 /\ searchCalls = 0

\* C4 as claimed: for every method, with caching enabled and a stored record
\* whose file set equals the key set of repo_files (and whose mapping
\* rebuilds a section), the call returns the sections rebuilt from the
\* stored mapping and invokes no strategy.
C4_ReplayForEveryMethod ==
  [][ ( /\ apc = "entry"
        /\ sa_use_cache
        /\ KeyGiven
        /\ CachedAtEntry.present
        /\ FingerprintMatches(aargs.repo_files, CachedAtEntry)
        /\ ReplaySections(aargs.repo_files, CachedAtEntry.sections) # <<>> )
      => ( /\ apc' = "done"
           /\ aret' = ReplaySections(aargs.repo_files, CachedAtEntry.sections)
           /\ NoStrategyRun' ) ]_vars

\* C4 as amended: for the Dependency and Hybrid methods, with caching
\* enabled and a stored record whose file set equals the key set of
\* repo_files and whose mapping rebuilds at least one non-empty section, the
\* call returns the sections rebuilt from the stored mapping (content from
\* the current repo_files) and invokes no strategy, merge or search.
C4_ReplayForDependencyAndHybrid ==
  [][ ( /\ apc = "entry"
        /\ sa_use_cache
        /\ KeyGiven
        /\ aargs.method \in {"DEPENDENCY", "HYBRID"}
        /\ CachedAtEntry.present
        /\ FingerprintMatches(aargs.repo_files, CachedAtEntry)
        /\ ReplaySections(aargs.repo_files, CachedAtEntry.sections) # <<>> )
      => ( /\ apc' = "done"
           /\ aret' = ReplaySections(aargs.repo_files, CachedAtEntry.sections)
           /\ \A k \in 1..Len(aret') : \A q \in DOMAIN aret'[k].files :
                aret'[k].files[q] = aargs.repo_files[q]
           /\ NoStrategyRun' ) ]_vars

\* A Hybrid call answered from the stored mapping.
C4_Witness ==
  /\ apc = "done"
  /\ replayed
  /\ aargs.method = "HYBRID"
  /\ Len(aret) > 1
  /\ NoStrategyRun

SectionPaths(secs) == UNION { DOMAIN secs[k].files : k \in 1..Len(secs) }

Disjoint(secs) ==
  \A k, j \in 1..Len(secs) :
    k # j => DOMAIN secs[k].files \cap DOMAIN secs[j].files = {}

\* C5: the sections a call returns are disjoint and cover exactly the keys
\* of repo_files, whatever the method, the dispatch or a replay.
C5_SectionsPartitionFiles ==
  apc = "done" =>
    /\ Disjoint(aret)
    /\ SectionPaths(aret) = DOMAIN aargs.repo_files

\* An enhanced Hybrid run that split an oversized structural section.
C5_Witness ==
  /\ apc = "done"
  /\ "_extract_enhanced_dependencies" \in strategyCalls
  /\ \E k \in 1..Len(aret) : aret[k].name = "src/group_2"
  /\ \E k \in 1..Len(aret) : aret[k].name = "root"

\* C6: every returned SectionSet keeps the size floor: each section holds at
\* least min_section_size files unless exactly one section is returned.
C6_SizeFloor ==
  apc = "done" =>
    \/ Len(aret) = 1
    \/ \A k \in 1..Len(aret) :
         Cardinality(DOMAIN aret[k].files) >= aargs.min_section_size

\* C7 as claimed: whenever a strategy was executed, the merge pass was
\* applied to its output, whatever min_section_size is.
C7_MergeAlwaysApplied ==
  (apc \in {"persist", "done"} /\ strategyCalls # {}) => mergeCalls = 1

\* C7 as amended: after the strategy, the merge pass is applied to its output
\* exactly when min_section_size > 1, whichever the method; otherwise the
\* strategy's output is kept; what is returned is the outcome of that step.
C7_MergeAppliedAboveOne ==
  [][ /\ (apc = "merge") =>
           IF aargs.min_section_size > 1
           THEN /\ sections' = merge_small_sections(sections,
                                                    aargs.min_section_size)
                /\ mergeCalls' = 1
           ELSE /\ sections' = sections
                /\ mergeCalls' = 0
      /\ (apc = "persist") => (aret' = sections /\ mergeCalls' = mergeCalls)
    ]_vars

\* A Structural run whose two sections the merge pass folded into one.
C7_Witness ==
  /\ apc = "done"
  /\ aargs.method = "STRUCTURAL"
  /\ mergeCalls = 1
  /\ Len(aret) = 1
  /\ Cardinality(DOMAIN aargs.repo_files) = 4

\* C8: when a call has returned, the structure record under (owner, repo,
\* branch) holds the returned section mapping, the key set of repo_files
\* and the method name, and the metadata record holds section count, method
\* and per-section sizes.
C8_PersistsReturnedStructure ==
  (apc = "done" /\ Persists(sa_use_cache, aargs.owner, aargs.repo)) =>
    /\ get_repo_structure(structCache, aargs.owner, aargs.repo, aargs.branch)
         = StructureRecord(aret, aargs.repo_files, aargs.method)
    /\ get_repo_metadata(metaCache, aargs.owner, aargs.repo, aargs.branch)
         = [present |-> TRUE, section_count |-> Len(aret),
            section_method |-> aargs.method,
            sections |-> SectionSizes(aret)]

\* The search-backed extraction was invoked in this call
EnhancedInvoked ==
  strategyCalls \cap {"enhanced_dependency_analysis",
                      "_extract_enhanced_dependencies"} # {}

\* The client the analyzer was built with advertises the search capability
ClientAdvertisesSearch ==
  github_client # None /\ client_has_code_search(github_client)

\* The basic strategy of a method
BasicName(method) ==
  CASE method = "DEPENDENCY" -> "dependency_analysis"
    [] method = "HYBRID"     -> "hybrid_analysis"
    [] OTHER                 -> "structural_analysis"

\* What dispatch does for the arguments of the call
DispatchRule ==
  /\ EnhancedInvoked <=>
       /\ aargs.method \in {"DEPENDENCY", "HYBRID"}
       /\ KeyGiven
       /\ ClientAdvertisesSearch
  /\ (aargs.method \in {"DEPENDENCY", "HYBRID"} /\ ~EnhancedInvoked) =>
       (strategyCalls = {BasicName(aargs.method)} /\ searchCalls = 0)
  /\ aargs.method = "STRUCTURAL" =>
       (strategyCalls = {"structural_analysis"} /\ searchCalls = 0)

\* C15 as claimed: in every call the search-backed extraction is invoked
\* iff the method is Dependency or Hybrid, owner and repo are given and the
\* client advertises search; otherwise Dependency and Hybrid run the basic
\* strategy, and Structural issues no search.
C15_EnhancedIffCapable ==
  apc \in {"merge", "persist", "done"} => DispatchRule

\* C15 as amended: the same rule for every call that is not answered from
\* the cached structure; a call answered from the cache invokes no strategy
\* and issues no search.
C15_EnhancedIffCapableUnlessReplayed ==
  /\ (apc \in {"merge", "persist", "done"} /\ ~replayed) => DispatchRule
  /\ replayed => (strategyCalls = {} /\ searchCalls = 0)

\* A Dependency call with the cache enabled and owner and repo given that
\* was not answered from the cache and ran the search-backed analysis.
C15_Witness ==
  /\ apc = "done"
  /\ ~replayed
  /\ sa_use_cache
  /\ aargs.method = "DEPENDENCY"
  /\ strategyCalls = {"enhanced_dependency_analysis"}
  /\ searchCalls > 0

\* C16: a call with min_section_size greater than max_section_size gets no
\* further than its entry: no cache read, strategy, merge or cache write
\* takes place and no SectionSet is returned.
C16_RejectsMinAboveMax ==
  aargs.min_section_size > aargs.max_section_size =>
    /\ apc \in {"idle", "entry"}
    /\ NoStrategyRun

\* C23: a call answered by replay for method M replays a structure record
\* whose section_method is M.
C23_ReplayedRecordHasRequestedMethod ==
  (apc = "done" /\ replayed) =>
    CachedAtEntry.section_method = aargs.method

\* C27: when a structure record with an empty section mapping is stored for
\* (owner, repo, branch) and the cache is consulted for a file map with the
\* recorded file set, the step taken at entry replays it (the call returns
\* the empty SectionSet) and no strategy runs.
C27_StoredEmptyIsReplayed ==
  [][ ( /\ apc = "entry"
        /\ ConsultsCache(sa_use_cache, aargs.owner, aargs.repo, aargs.method)
        /\ CachedAtEntry.present
        /\ FingerprintMatches(aargs.repo_files, CachedAtEntry)
        /\ CachedAtEntry.sections = <<>> )
      => ( /\ apc' = "done"
           /\ replayed'
           /\ aret' = <<>> ) ]_avars

\* The enhanced Hybrid branch (lines 101-129) has just assigned sections
EnhancedHybridRan ==
  /\ apc = "merge"
  /\ aargs.method = "HYBRID"
  /\ "_extract_enhanced_dependencies" \in strategyCalls

\* C24: what the enhanced Hybrid branch produces is, structural section by
\* structural section and in structural order, the section itself when it
\* holds at most max_section_size files, and otherwise the groups that the
\* dependency grouping makes of that section's files and of the reported
\* edges between them, each named after the section, a slash and the
\* group's name.
C24_HybridRefinesInPlace ==
  EnhancedHybridRan =>
    LET rf == aargs.repo_files
        mx == aargs.max_section_size
        st == structural_analysis(rf, mx)
        Within(deps, P) == [ p \in DOMAIN deps \cap P |-> deps[p] \cap P ]
        Named(P, subs) == [ j \in 1..Len(subs) |->
                              Section(P \o "/" \o subs[j].name,
                                      subs[j].files) ]
        Part(sec, deps) ==
          IF Cardinality(DOMAIN sec.files) <= mx
          THEN << sec >>
          ELSE Named(sec.name,
                     group_by_dependencies(
                       sec.files, Within(deps, DOMAIN sec.files), mx))
    IN  \E deps \in EnhancedDependencyChoices(rf) :
          /\ sections = FlattenSeqs([k \in 1..Len(st) |-> Part(st[k], deps)])
          /\ \A k \in 1..Len(st) :
               Cardinality(DOMAIN st[k].files) > mx =>
                 \A j \in 1..Len(Part(st[k], deps)) :
                   DOMAIN Part(st[k], deps)[j].files
                     \subseteq DOMAIN st[k].files

\* The enhanced Hybrid branch kept the small section root first and put the
\* groups of the oversized section src in its place, two files of src among
\* them grouped by an edge between them.
C24_Witness ==
  /\ EnhancedHybridRan
  /\ aargs.max_section_size = 2
  /\ Len(sections) = 3
  /\ sections[1].name = "root"
  /\ DOMAIN sections[1].files = {"README.md"}
  /\ sections[2].name = "src/group_1"
  /\ Cardinality(DOMAIN sections[2].files) = 2
  /\ sections[3].name = "src/group_2"

\* ------------------------------------------------------------------------
\* Properties of search_references and call_mcp_tool
\* ------------------------------------------------------------------------

\* What the queries of the call returned, together
AllAnswers == UNION { Range(answers[k]) : k \in DOMAIN answers }

SearchDone == spc = "done"

\* C18 (as stated): the set search_references returns is the union of the
\* results of all its queries without the file itself, and it never holds
\* more than 100 paths.
C18_UnionCappedAtMax ==
  SearchDone =>
    /\ sret = AllAnswers \ {filepath}
    /\ Cardinality(sret) <= DefaultMaxResults

\* C18 (amended): the set search_references returns is the union of the
\* results of all its queries without the file itself; each query
\* contributes at most 100 items, so the set holds at most 100 paths per
\* query issued.
C18_UnionCappedPerQuery ==
  SearchDone =>
    /\ sret = AllAnswers \ {filepath}
    /\ Len(answers) = Len(Queries(filepath))
    /\ \A k \in DOMAIN answers : Len(answers[k]) <= DefaultMaxResults
    /\ Cardinality(sret) <= DefaultMaxResults * Len(answers)

\* A call about a Python file has returned more than 100 paths, and one of
\* its queries had reported the file itself.
C18_Witness ==
  /\ SearchDone
  /\ filepath = "src/a.py"
  /\ Len(answers) = 3
  /\ filepath \in AllAnswers
  /\ Cardinality(sret) > DefaultMaxResults

\* The exception that left call_mcp_tool, as its caller sees it
Surfaced(r) == << r.cls, r.msg >>

\* C19: a call_mcp_tool call whose subprocess timed out ends with an
\* exception that differs from the one every other failure of the same call
\* ends with (non-zero exit, unparsable response, failure to start), and
\* each call runs the subprocess once.
C19_TimeoutDistinguishable ==
  /\ toolRuns = toolCalls
  /\ lastTool.kind = "timeout" =>
       /\ lastTool.raised
       /\ \A proc \in ProcOutcomes(NoResponse) :
            LET r == call_mcp_tool(lastTool.tool, proc)
            IN  (proc.kind # "timeout" /\ r.raised) =>
                  Surfaced(r) # Surfaced(lastTool)

\* A search of the call had returned items; the request of the next search
\* timed out, search_code returned the empty list and the for loop of
\* search_references went on.
C19_Witness ==
  /\ lastTool.kind = "timeout"
  /\ lastTool.raised
  /\ spc = "query"
  /\ Len(answers) = 2
  /\ answers[1] # <<>>
  /\ answers[2] = <<>>

\* search_code is inside its while loop
Paging == spc = "page"

\* C26: search_code issues at most max_results page requests and holds
\* fewer than max_results items whenever it asks for another page; a
\* request that raises makes it return the empty list, an empty page or an
\* accumulated count of at least total_count or max_results makes it return
\* what it has, cut to max_results items; and every search_code call, once
\* begun, returns.
C26_SearchCodeTerminatesCapped ==
  /\ [](Paging => (page <= DefaultMaxResults
                   /\ Len(results) < DefaultMaxResults))
  /\ [](\A k \in DOMAIN answers : Len(answers[k]) <= DefaultMaxResults)
  /\ [][ Paging =>
           LET got == SearchResponse(hits, page, page_size, total)
               all == results \o got.items
               first100(rs) == SubSeq(rs, 1, Min(Len(rs), DefaultMaxResults))
               returns(rs) == /\ spc' = "query"
                              /\ answers' = Append(answers, rs)
           IN  /\ lastTool'.raised => returns(<<>>)
               /\ (~lastTool'.raised /\ got.items = <<>>) =>
                    returns(first100(results))
               /\ ( /\ ~lastTool'.raised
                    /\ got.items # <<>>
                    /\ (Len(all) >= total \/ Len(all) >= DefaultMaxResults) )
                    => returns(first100(all))
               /\ ( /\ ~lastTool'.raised
                    /\ got.items # <<>>
                    /\ Len(all) < total
                    /\ Len(all) < DefaultMaxResults )
                    => (Paging' /\ page' = page + 1 /\ results' = all) ]_mvars
  /\ (Paging ~> ~Paging)

\* search_code is about to send its max_results-th page request, having
\* received one item per page so far, in a call whose first search returned
\* one short page.
C26_Witness ==
  /\ Paging
  /\ page = DefaultMaxResults
  /\ toolCalls = DefaultMaxResults - 1
  /\ Len(results) = DefaultMaxResults - 1
  /\ page_size = 1
  /\ Len(answers) = 1
  /\ Len(answers[1]) = 4

====
